---- MODULE Spec2Model ----
(***************************************************************************)
(* gcd_bench: Euclid's gcd and the binary (Stein) gcd of src/main.rs, as   *)
(* implemented by the macros implement_has_gcd_for_uints and               *)
(* implement_has_gcd_for_ints for the fixed-width integer kinds, and the   *)
(* callers that run and compare them.                                      *)
(*                                                                         *)
(* An integer kind is (signed, bits).  A value of a kind is the            *)
(* mathematical integer it denotes; every operation wraps, or panics, at   *)
(* the kind's width as rustc compiles it.  Arithmetic overflow of abs, -   *)
(* and of a shift amount panics in a build with overflow checks (debug,    *)
(* and `cargo test`) and wraps in a build without them (release); the      *)
(* remainder min % -1 panics in every build.                               *)
(***************************************************************************)
EXTENDS Integers

VARIABLES
    signed,           \* the kind $t is a signed kind (i8, ...) or not (u8, ...)
    bits,             \* the width of $t
    overflow_checks,  \* the build panics on arithmetic overflow (debug) or wraps
    a, b,             \* the arguments of the call
    caller,           \* "call": one function is called; "check": the comparison
    fn,               \* the function that is running: "gcd" or "binary_gcd"
    frame,            \* its locals and its position
    gcd_1,            \* the comparison's saved result of gcd(a, b)
    verdict           \* the comparison's outcome

vars == <<signed, bits, overflow_checks, a, b, caller, fn, frame, gcd_1, verdict>>

(***************************************************************************)
(* Bounds.  The kinds of the program are 8 to 64 bits wide; every pair of  *)
(* values is explored for the kinds of 2 to Bits bits, and the border      *)
(* values for the 8 and 16 bit kinds of the program.                       *)
(***************************************************************************)
Bits == 5

ScaledWidths == 2..Bits

ProgramWidths == {8, 16}

(***************************************************************************)
(* The kind's values.                                                      *)
(***************************************************************************)
min_value == IF signed THEN -(2^(bits - 1)) ELSE 0

max_value == IF signed THEN 2^(bits - 1) - 1 ELSE 2^bits - 1

Values == min_value..max_value

\* The bit pattern of x (two's complement), as a natural number below 2^bits.
ToBits(x) == x % (2^bits)

\* The value of the kind with bit pattern u.
FromBits(u) == IF signed /\ u >= 2^(bits - 1) THEN u - 2^bits ELSE u

\* An arithmetic result, truncated to the kind's width.
Wrap(x) == FromBits(ToBits(x))

RECURSIVE OrBits(_, _)
OrBits(u, v) ==
    IF u = 0 THEN v
    ELSE IF v = 0 THEN u
    ELSE (IF u % 2 = 1 \/ v % 2 = 1 THEN 1 ELSE 0) + 2 * OrBits(u \div 2, v \div 2)

\* m | n
BitOr(x, y) == FromBits(OrBits(ToBits(x), ToBits(y)))

RECURSIVE CountTrailingZeros(_, _)
CountTrailingZeros(u, w) ==
    IF w = 0 \/ u % 2 = 1 THEN 0 ELSE 1 + CountTrailingZeros(u \div 2, w - 1)

\* x.trailing_zeros(): the width for x = 0.
trailing_zeros(x) == IF x = 0 THEN bits ELSE CountTrailingZeros(ToBits(x), bits)

Magnitude(x) == IF x < 0 THEN -x ELSE x

\* n % temp of Rust: the remainder of the division truncated towards zero,
\* with the sign of the dividend.  temp is not 0 at its uses.
rem(x, y) ==
    IF x < 0 THEN -(Magnitude(x) % Magnitude(y)) ELSE x % Magnitude(y)

\* min % -1 panics ("attempt to calculate the remainder with overflow") in
\* every build.
rem_overflows(x, y) == signed /\ x = min_value /\ y = -1

\* x.abs() overflows for the minimum value of a signed kind.
abs_overflows(x) == signed /\ x = min_value

\* x.abs() where it does not panic: the minimum value wraps to itself.
wrapping_abs(x) == Wrap(Magnitude(x))

\* a shift by k overflows when k is not below the width
shift_overflows(k) == k >= bits

\* x >> k where it does not panic: the amount is masked to the width
wrapping_shr(x, k) == x \div (2^(k % bits))

\* x << k where it does not panic: bits shifted out are lost
wrapping_shl(x, k) == Wrap(x * 2^(k % bits))

\* x - y overflows when the difference is no value of the kind
sub_overflows(x, y) == (x - y) \notin Values

wrapping_sub(x, y) == Wrap(x - y)

(***************************************************************************)
(* A call's frame: its position pc, its locals m, n and shift, the value   *)
(* it returned, the panic that ended it, and what it did on the way: the   *)
(* number of abs() calls it made and whether one was of the minimum value. *)
(***************************************************************************)
Call(f, x, y) ==
    [pc |-> IF f = "gcd" THEN "loop" ELSE "entry",
     m |-> x, n |-> y, shift |-> 0, ret |-> 0, err |-> "none",
     abs_calls |-> 0, abs_min |-> FALSE]

Return(f, v) == [f EXCEPT !.pc = "done", !.ret = v]

Panic(f, why) == [f EXCEPT !.pc = "panic", !.err = why]

Ended(f) == f.pc \in {"done", "panic"}

\* the return without the absolute value: return x
ReturnAbs_NoAbs(f, x) == Return(f, x)

\* return x.abs()
ReturnAbs(f, x) ==
    IF abs_overflows(x) /\ overflow_checks
    THEN Panic([f EXCEPT !.abs_min = TRUE], "abs")
    ELSE Return([f EXCEPT !.abs_calls = @ + 1,
                          !.abs_min = @ \/ abs_overflows(x)], wrapping_abs(x))

\* while m != 0 { let temp = m; m = n % temp; n = temp; }
EuclidLoop(f) ==
    IF f.m # 0
    THEN IF rem_overflows(f.n, f.m)
         THEN Panic(f, "rem")
         ELSE [f EXCEPT !.m = rem(f.n, f.m), !.n = f.m]
    ELSE [f EXCEPT !.pc = "ret"]

\* gcd of the unsigned kinds
gcd_uint(f) ==
    CASE f.pc = "loop" -> EuclidLoop(f)
      [] f.pc = "ret"  -> Return(f, f.n)

\* gcd of the signed kinds
gcd_int(f) ==
    CASE f.pc = "loop" -> EuclidLoop(f)
      [] f.pc = "ret"  -> ReturnAbs(f, f.n)

\* if m == 0 || n == 0 { return m | n }
ZeroCaseUint(f) ==
    IF f.m = 0 \/ f.n = 0
    THEN Return(f, BitOr(f.m, f.n))
    ELSE [f EXCEPT !.pc = "shift"]

\* if m == 0 || n == 0 { return (m | n).abs() }
ZeroCaseInt(f) ==
    IF f.m = 0 \/ f.n = 0
    THEN ReturnAbs(f, BitOr(f.m, f.n))
    ELSE [f EXCEPT !.pc = "shift"]

\* let shift = (m | n).trailing_zeros();
CommonShift(f) == trailing_zeros(BitOr(f.m, f.n))

\* the check of one argument alone: m == $min
IsMin_OnlyM(f) == f.m = min_value

\* m == $min || n == $min
IsMin(f) == f.m = min_value \/ f.n = min_value

\* return 1 << shift
ReturnOneShl(f, k) ==
    IF shift_overflows(k) /\ overflow_checks
    THEN Panic(f, "shl")
    ELSE Return([f EXCEPT !.shift = k], wrapping_shl(1, k))

\* m = m.abs(); n = n.abs();
AbsBoth(f) ==
    IF (abs_overflows(f.m) \/ abs_overflows(f.n)) /\ overflow_checks
    THEN Panic([f EXCEPT !.abs_min = TRUE], "abs")
    ELSE [f EXCEPT !.m = wrapping_abs(f.m), !.n = wrapping_abs(f.n),
                   !.abs_calls = @ + 2,
                   !.abs_min = @ \/ abs_overflows(f.m) \/ abs_overflows(f.n),
                   !.pc = "odd"]

\* n >>= n.trailing_zeros();
MakeOdd(f) ==
    IF shift_overflows(trailing_zeros(f.n)) /\ overflow_checks
    THEN Panic(f, "shr")
    ELSE [f EXCEPT !.n = wrapping_shr(f.n, trailing_zeros(f.n)), !.pc = "loop"]

\* the swap left out
SwapIfGreater_Never(f) == f

\* the comparison inverted: if n < m { swap }
SwapIfGreater_Inverted(f) ==
    IF f.n < f.m THEN [f EXCEPT !.m = f.n, !.n = f.m] ELSE f

\* if n > m { std::mem::swap(&mut n, &mut m) }
SwapIfGreater(f) ==
    IF f.n > f.m THEN [f EXCEPT !.m = f.n, !.n = f.m] ELSE f

\* while m != 0 { m >>= m.trailing_zeros(); if n > m { swap } ...
SteinLoop(f) ==
    IF f.m # 0
    THEN IF shift_overflows(trailing_zeros(f.m)) /\ overflow_checks
         THEN Panic(f, "shr")
         ELSE SwapIfGreater(
                  [f EXCEPT !.m = wrapping_shr(f.m, trailing_zeros(f.m)),
                            !.pc = "sub"])
    ELSE [f EXCEPT !.pc = "ret"]

\* ... m -= n; }
SteinSub(f) ==
    IF sub_overflows(f.m, f.n) /\ overflow_checks
    THEN Panic(f, "sub")
    ELSE [f EXCEPT !.m = wrapping_sub(f.m, f.n), !.pc = "loop"]

\* One iteration of binary_gcd's loop, from its head to the next head:
\* while m != 0 { m >>= m.trailing_zeros(); if n > m { swap }; m -= n; }
SteinIteration(f) == IF Ended(SteinLoop(f)) THEN SteinLoop(f) ELSE SteinSub(SteinLoop(f))

\* n << shift
ReturnShl(f) ==
    IF shift_overflows(f.shift) /\ overflow_checks
    THEN Panic(f, "shl")
    ELSE Return(f, wrapping_shl(f.n, f.shift))

\* binary_gcd of the unsigned kinds
binary_gcd_uint(f) ==
    CASE f.pc = "entry" -> ZeroCaseUint(f)
      [] f.pc = "shift" -> MakeOdd([f EXCEPT !.shift = CommonShift(f)])
      [] f.pc = "loop"  -> SteinLoop(f)
      [] f.pc = "sub"   -> SteinSub(f)
      [] f.pc = "ret"   -> ReturnShl(f)

\* binary_gcd of the signed kinds
binary_gcd_int(f) ==
    CASE f.pc = "entry" -> ZeroCaseInt(f)
      [] f.pc = "shift" -> IF IsMin(f)
                           THEN ReturnOneShl(f, CommonShift(f))
                           ELSE [f EXCEPT !.shift = CommonShift(f), !.pc = "abs"]
      [] f.pc = "abs"   -> AbsBoth(f)
      [] f.pc = "odd"   -> MakeOdd(f)
      [] f.pc = "loop"  -> SteinLoop(f)
      [] f.pc = "sub"   -> SteinSub(f)
      [] f.pc = "ret"   -> ReturnShl(f)

\* One step of the running function: HasGCD::gcd or HasGCD::binary_gcd of $t.
Step(g, f) ==
    IF g = "gcd"
    THEN IF signed THEN gcd_int(f) ELSE gcd_uint(f)
    ELSE IF signed THEN binary_gcd_int(f) ELSE binary_gcd_uint(f)

\* The call run to its end: fn gcd(a, b) and fn binary_gcd(a, b).
RECURSIVE Run(_, _)
Run(g, f) == IF Ended(f) THEN f ELSE Run(g, Step(g, f))

gcd(x, y) == Run("gcd", Call("gcd", x, y))

binary_gcd(x, y) == Run("binary_gcd", Call("binary_gcd", x, y))

\* What a caller sees of a call: the value returned, or the panic.
Outcome(f) == [returned |-> f.pc = "done", value |-> f.ret, err |-> f.err]

(***************************************************************************)
(* The callers.                                                            *)
(***************************************************************************)
\* The values the border cases are made of.
BorderValues ==
    {min_value, min_value + 1, min_value \div 2, -2, -1, 0, 1, 2, 3,
     max_value \div 2 + 1, max_value - 1, max_value} \cap Values

Init ==
    /\ signed \in BOOLEAN
    /\ overflow_checks \in BOOLEAN
    /\ \/ bits \in ProgramWidths /\ a \in BorderValues /\ b \in BorderValues
       \/ bits \in ScaledWidths /\ a \in Values /\ b \in Values
    /\ \/ caller = "call" /\ fn \in {"gcd", "binary_gcd"}
       \/ caller = "check" /\ fn = "gcd"
    /\ frame = Call(fn, a, b)
    /\ gcd_1 = 0
    /\ verdict = "none"

Running(g, pcs) == fn = g /\ frame.pc \in pcs

StepFrame ==
    /\ frame' = Step(fn, frame)
    /\ UNCHANGED <<signed, bits, overflow_checks, a, b, caller, fn, gcd_1, verdict>>

GcdLoop == Running("gcd", {"loop"}) /\ StepFrame

GcdReturn == Running("gcd", {"ret"}) /\ StepFrame

BinaryGcdEntry == Running("binary_gcd", {"entry"}) /\ StepFrame

BinaryGcdShift == Running("binary_gcd", {"shift"}) /\ StepFrame

BinaryGcdAbs == Running("binary_gcd", {"abs"}) /\ StepFrame

BinaryGcdOdd == Running("binary_gcd", {"odd"}) /\ StepFrame

BinaryGcdLoop == Running("binary_gcd", {"loop"}) /\ StepFrame

BinaryGcdSub == Running("binary_gcd", {"sub"}) /\ StepFrame

BinaryGcdReturn == Running("binary_gcd", {"ret"}) /\ StepFrame

\* let gcd_1 = gcd(num1, num2); let gcd_2 = binary_gcd(num1, num2);
CheckCallBinaryGcd ==
    /\ caller = "check" /\ fn = "gcd" /\ frame.pc = "done"
    /\ gcd_1' = frame.ret
    /\ fn' = "binary_gcd"
    /\ frame' = Call("binary_gcd", a, b)
    /\ UNCHANGED <<signed, bits, overflow_checks, a, b, caller, verdict>>

\* if gcd_1 != gcd_2 { panic!(...) }
CheckCompare ==
    /\ caller = "check" /\ fn = "binary_gcd" /\ frame.pc = "done"
    /\ verdict = "none"
    /\ verdict' = IF gcd_1 # frame.ret THEN "mismatch" ELSE "equal"
    /\ UNCHANGED <<signed, bits, overflow_checks, a, b, caller, fn, frame, gcd_1>>

Next ==
    \/ GcdLoop
    \/ GcdReturn
    \/ BinaryGcdEntry
    \/ BinaryGcdShift
    \/ BinaryGcdAbs
    \/ BinaryGcdOdd
    \/ BinaryGcdLoop
    \/ BinaryGcdSub
    \/ BinaryGcdReturn
    \/ CheckCallBinaryGcd
    \/ CheckCompare

Spec == Init /\ [][Next]_vars

(***************************************************************************)
(* What the claims are stated with.                                        *)
(***************************************************************************)
Divides(d, x) == x % d = 0

\* The greatest common divisor of the naturals x and y, by its definition:
\* the largest natural that divides both, and 0 for x = y = 0.
MathGcd(x, y) ==
    IF x = 0 /\ y = 0 THEN 0
    ELSE LET top == IF x = 0 THEN y ELSE IF y = 0 THEN x ELSE IF x < y THEN x ELSE y
             common == {d \in 1..top : Divides(d, x) /\ Divides(d, y)}
         IN  CHOOSE d \in common : \A e \in common : e <= d

\* The exponent of the largest power of two that divides the non-zero x and y.
CommonTwos(x, y) ==
    CHOOSE k \in 0..(bits - 1) :
        /\ Divides(2^k, x) /\ Divides(2^k, y)
        /\ ~(Divides(2^(k + 1), x) /\ Divides(2^(k + 1), y))

\* Neither argument is zero nor, for a signed kind, the minimum value.
GeneralCase == a # 0 /\ b # 0 /\ ~(signed /\ (a = min_value \/ b = min_value))

\* |x|, and the minimum value itself for the minimum value of a signed kind.
AbsOrMin(x) == IF signed /\ x = min_value THEN min_value ELSE Magnitude(x)

(***************************************************************************)
(* C1.  Agreement: for every kind and every pair (a, b), gcd(a, b) and     *)
(* binary_gcd(a, b) both return a value, and the two values are equal: no  *)
(* call panics and no comparison finds a mismatch.                         *)
(* Violated: gcd(-1, min) and gcd(min, -1) panic in min % -1 in every      *)
(* build, and gcd and binary_gcd of (min, 0), (0, min), and gcd of         *)
(* (min, min), panic in abs() in a build with overflow checks.             *)
(***************************************************************************)
C1_Agreement ==
    /\ frame.pc # "panic"
    /\ verdict # "mismatch"
    /\ Ended(frame) =>
          /\ gcd(a, b).pc = "done"
          /\ binary_gcd(a, b).pc = "done"
          /\ gcd(a, b).ret = binary_gcd(a, b).ret

(***************************************************************************)
(* C2.  For a signed kind, when neither argument is zero and at least one  *)
(* is the minimum value, binary_gcd returns 1 << trailing_zeros(a | b),    *)
(* that is the largest power of two dividing both, truncated to the kind,  *)
(* and calls abs() nowhere; binary_gcd(min, min) = min,                    *)
(* binary_gcd(min, max) = binary_gcd(max, min) = 1, and                    *)
(* binary_gcd(max, max) = max.                                             *)
(***************************************************************************)
C2_MinShortcut ==
    (signed /\ fn = "binary_gcd" /\ a # 0 /\ b # 0) =>
        /\ (a = min_value \/ b = min_value) =>
              /\ frame.abs_calls = 0 /\ ~frame.abs_min
              /\ frame.pc \in {"entry", "shift", "done"}
              /\ frame.pc = "done" =>
                    /\ frame.ret = wrapping_shl(1, trailing_zeros(BitOr(a, b)))
                    /\ frame.ret = Wrap(2^CommonTwos(a, b))
                    /\ (a = min_value /\ b = min_value) => frame.ret = min_value
                    /\ (max_value \in {a, b}) => frame.ret = 1
        /\ (a = max_value /\ b = max_value /\ Ended(frame)) =>
              (frame.pc = "done" /\ frame.ret = max_value)

C2_Witness ==
    /\ signed /\ bits = 8 /\ fn = "binary_gcd"
    /\ a = -128 /\ b = -128
    /\ frame.pc = "done" /\ frame.ret = -128 /\ frame.abs_calls = 0

(***************************************************************************)
(* C3.  Identity with zero: for every kind and every value, each of gcd    *)
(* and binary_gcd called with a zero argument returns the magnitude of the *)
(* other argument, and the minimum value itself when the other argument is *)
(* the minimum value of a signed kind; in particular 0 for (0, 0).         *)
(* Violated: gcd and binary_gcd of (min, 0) and of (0, min) panic in       *)
(* abs() in a build with overflow checks.                                  *)
(***************************************************************************)
C3_IdentityWithZero ==
    (Ended(frame) /\ (a = 0 \/ b = 0)) =>
        /\ frame.pc = "done"
        /\ frame.ret = AbsOrMin(IF a = 0 THEN b ELSE a)

(***************************************************************************)
(* C4.  gcd (Euclid) returns the greatest common divisor of |a| and |b|,   *)
(* a non-negative value, for every pair of every kind except the signed    *)
(* pair (min, min).                                                        *)
(* Violated: gcd(-1, min) and gcd(min, -1) panic in every build;           *)
(* gcd(min, 0) and gcd(0, min) panic or return min.                        *)
(***************************************************************************)
C4_EuclidCorrect ==
    (fn = "gcd" /\ Ended(frame) /\ ~(signed /\ a = min_value /\ b = min_value)) =>
        /\ frame.pc = "done"
        /\ frame.ret >= 0
        /\ frame.ret = MathGcd(Magnitude(a), Magnitude(b))

MinPair == {a, b} \subseteq {0, min_value} /\ min_value \in {a, b}

C6_Commutative ==
    Ended(frame) => Outcome(frame) = Outcome(Run(fn, Call(fn, b, a)))

C6_Witness ==
    /\ signed /\ bits = 8 /\ fn = "binary_gcd"
    /\ a = 127 /\ b = -128
    /\ frame.pc = "done" /\ frame.ret = 1
    /\ binary_gcd(b, a).ret = 1

(***************************************************************************)
(* C7.  Equal inputs: for every kind and every value a, gcd(a, a) and      *)
(* binary_gcd(a, a) return |a|, and min for the minimum value of a signed  *)
(* kind.                                                                   *)
(* Violated: gcd(min, min) panics in abs() in a build with overflow        *)
(* checks.                                                                 *)
(***************************************************************************)
C7_EqualInputs ==
    (Ended(frame) /\ a = b) =>
        /\ frame.pc = "done"
        /\ frame.ret = AbsOrMin(a)

(***************************************************************************)
(* C8.  No fallible path: for signed kinds no execution of gcd or          *)
(* binary_gcd takes the absolute value of the minimum value or performs    *)
(* another trapping operation; every call returns a value.                 *)
(* Violated: gcd(min, -1) computes min % -1 and panics; gcd(min, 0) and    *)
(* binary_gcd(min, 0) call abs() on min.                                   *)
(***************************************************************************)
C8_NoFalliblePath ==
    signed => (frame.pc # "panic" /\ ~frame.abs_min)

\* The running function is at the head of its loop, about to iterate.
AtLoopHead(g) == fn = g /\ frame.pc = "loop" /\ frame.m # 0

LoopsProgress ==
    /\ AtLoopHead("gcd") =>
          \/ EuclidLoop(frame).err = "rem"
          \/ /\ ~Ended(EuclidLoop(frame))
             /\ Magnitude(EuclidLoop(frame).m) < Magnitude(frame.m)
    /\ AtLoopHead("binary_gcd") =>
          /\ ~Ended(SteinIteration(frame))
          /\ SteinIteration(frame).m >= 0 /\ SteinIteration(frame).n > 0
          /\ SteinIteration(frame).m + SteinIteration(frame).n < frame.m + frame.n

\* The call has ended, and its loop, if it ran, ended with m = 0 or, in gcd,
\* with the panic of min % -1.
LoopExited ==
    /\ Ended(frame)
    /\ fn = "gcd" => (frame.m = 0 \/ frame.err = "rem")
    /\ (fn = "binary_gcd" /\ GeneralCase) => (frame.pc = "done" /\ frame.m = 0)

C10_NoOverflow ==
    (fn = "binary_gcd" /\ GeneralCase) =>
        /\ frame.pc # "panic" /\ ~frame.abs_min
        /\ frame.pc = "shift" => CommonShift(frame) < bits
        /\ frame.pc = "abs" => ~abs_overflows(frame.m) /\ ~abs_overflows(frame.n)
        /\ frame.pc \in {"odd", "shift"} =>
              (frame.n # 0 /\ trailing_zeros(frame.n) < bits)
        /\ frame.pc \in {"loop", "sub", "ret"} =>
              (frame.n > 0 /\ frame.n % 2 = 1 /\ frame.m >= 0)
        /\ AtLoopHead("binary_gcd") => trailing_zeros(frame.m) < bits
        /\ frame.pc = "sub" =>
              (frame.m >= frame.n /\ frame.m % 2 = 1 /\ ~sub_overflows(frame.m, frame.n))
        /\ frame.pc = "ret" =>
              (frame.shift < bits /\ frame.n * 2^frame.shift <= max_value)
        /\ frame.pc = "done" =>
              (frame.ret = frame.n * 2^frame.shift /\ frame.ret \in 1..max_value)

C10_Witness ==
    /\ signed /\ bits = 8 /\ fn = "binary_gcd"
    /\ a = 126 /\ b = 126
    /\ frame.pc = "done" /\ frame.shift = 1 /\ frame.n = 63 /\ frame.ret = 126

\* The program runs a call to its end: a step that can be taken is taken.
FairSpec == Spec /\ WF_vars(Next)

====
